---- MODULE Spec2Model ----
(***************************************************************************)
(* Model of the homepage card editor: the shared core (tools/core.py), the *)
(* web handlers (tools/app.py) and the command line (tools/cli.py).        *)
(*                                                                         *)
(* A card is the sequence of its <<key, value>> pairs in insertion order   *)
(* (a CommentedMap keeps its keys in that order and writes them in it); a  *)
(* string that was loaded in single quotes is <<key, value, "'">>, since   *)
(* _yaml sets preserve_quotes.  The card list is a sequence of cards.      *)
(* Python indices are kept (0-based); At/Pop/Insert convert.  The text of  *)
(* _data/cards.yml is the sequence of its lines, each with its length in   *)
(* bytes.                                                                  *)
(*                                                                         *)
(* Specifications:                                                         *)
(*   Spec      one call of a core card operation on an arbitrary list      *)
(*             (and an add_card after a remove_card)                       *)
(*   SpecCalls sequences of calls of the core card operations              *)
(*   SpecSeq   front-end invocations, web requests and commands; a command *)
(*             that waits for its user lets other invocations run          *)
(*   SpecRace  two web requests interleaved on the file, byte by byte      *)
(*   SpecPub   git_publish under its two callers, two publishes at a time  *)
(***************************************************************************)
EXTENDS Integers, Sequences, FiniteSets, TLC

VARIABLES
    cards,  \* Spec, SpecCalls: the card list a core operation works on
    last,   \* Spec, SpecCalls: the last call of a core operation
    prev,   \* Spec: the call before it
    calls,  \* SpecCalls: the number of calls made so far
    file,   \* the text of _data/cards.yml
    resp,   \* SpecSeq: what the last front-end invocation answered
    term,   \* SpecSeq: the command that waits for its user, and what it loaded
    saves,  \* SpecSeq: the number of invocations that went on to save
    proc,   \* SpecRace: each invocation's position, request and data
    events, \* SpecRace: the file accesses so far, in order
    git,    \* SpecPub: the version of cards.yml in the work tree, the index,
            \*          the local branch and the remote
    pub     \* SpecPub: each publish: its position, the steps it ran, its answer

opsVars == <<cards, last, prev, calls>>
seqVars == <<file, resp, term, saves>>
raceVars == <<proc, events>>
pubVars == <<git, pub>>
vars == <<cards, last, prev, calls, file, resp, term, saves, proc, events, git, pub>>

(***************************************************************************)
(* Bounds of the model.                                                    *)
(***************************************************************************)
\* longest card list given to a single core call
MaxCards == 3
\* longest sequence of core calls of SpecCalls
MaxCalls == 2
\* number of invocations of SpecSeq that go on to save
MaxSeqSaves == 2
\* longest card list in the file two racing invocations start from
MaxRaceCards == 2
\* number of times cards.yml is saved while SpecPub runs
MaxEdits == 2

(***************************************************************************)
(* Values.                                                                 *)
(***************************************************************************)
LogoVals == {"", "/assets/img/flower.svg"}
TitleVals == {"", "X"}
\* the lines of a content; the contents of the model have at most one line
ContentLines == {"<p>hi</p>"}
\* the contents: no text, a line end alone, a line without and with its line end
ContentVals == {"", "\n"} \cup ContentLines \cup {l \o "\n" : l \in ContentLines}

\* CommentedMap(): a card with no key
EmptyCard == <<>>

Keys(card) == {card[i][1] : i \in 1..Len(card)}

\* k in card
Has(card, k) == k \in Keys(card)

KeyPos(card, k) == CHOOSE i \in 1..Len(card) : card[i][1] = k

\* card[k]
Get(card, k) == card[KeyPos(card, k)][2]

\* the keys whose values are strings
StringKeys == {"logo", "title"}

\* whether card[k] is a string that was loaded in single quotes
Quoted(card, k) == Has(card, k) /\ Len(card[KeyPos(card, k)]) = 3

\* the card with the string card[k] as a line that holds it in single quotes
\* is loaded (preserve_quotes)
InQuotes(card, k) ==
    [card EXCEPT ![KeyPos(card, k)] = <<k, Get(card, k), "'">>]

\* card[k] = v: a key the card has keeps its place, a new key goes last.  A
\* string stored over one that was loaded in quotes takes its quotes
\* (CommentedMap keeps the scalar's type when an existing key is set).
SetKey(card, k, v) ==
    IF Has(card, k)
    THEN [card EXCEPT ![KeyPos(card, k)] =
             IF k \in StringKeys /\ Quoted(card, k) THEN <<k, v, "'">>
             ELSE <<k, v>>]
    ELSE Append(card, <<k, v>>)

\* del card[k]
DelKey(card, k) == SelectSeq(card, LAMBDA p : p[1] # k)

\* [LiteralScalarString(content)]
ContentBlock(content) == <<content>>

(***************************************************************************)
(* Python list primitives on 0-based indices.                              *)
(***************************************************************************)
InRange(s, i) == 0 <= i /\ i < Len(s)

\* a negative index counts from the end
Norm(s, i) == IF i < 0 THEN i + Len(s) ELSE i

\* s[i]
At(s, i) == s[Norm(s, i) + 1]

\* list.pop(i): the list without its element i
Pop(s, i) == SubSeq(s, 1, Norm(s, i)) \o SubSeq(s, Norm(s, i) + 2, Len(s))

\* the position list.insert(i, x) puts x at: i clamped to 0..len
InsertPos(s, i) ==
    IF Norm(s, i) < 0 THEN 0 ELSE IF Norm(s, i) > Len(s) THEN Len(s) ELSE Norm(s, i)

\* list.insert(i, x)
Insert(s, i, x) ==
    SubSeq(s, 1, InsertPos(s, i)) \o <<x>> \o SubSeq(s, InsertPos(s, i) + 1, Len(s))

\* s[i] = x
Replace(s, i, x) == [s EXCEPT ![Norm(s, i) + 1] = x]

(***************************************************************************)
(* core.py card operations.                                                *)
(***************************************************************************)
\* the card add_card builds (core.py 68-80): logo, center, partition, title,
\* content, in that order
new_card(logo, title, content, center, partition) ==
    LET c0 == EmptyCard
        c1 == IF logo # "" THEN SetKey(c0, "logo", logo) ELSE c0
        c2 == IF center THEN SetKey(c1, "center", TRUE) ELSE c1
        c3 == IF partition THEN SetKey(c2, "partition", TRUE) ELSE c2
        c4 == IF title # "" THEN SetKey(c3, "title", title) ELSE c3
    IN  IF content # "" THEN SetKey(c4, "content", ContentBlock(content))
        ELSE SetKey(c4, "content", ContentBlock(""))

\* add_card putting the card first instead of last
add_card_front(cs, logo, title, content, center, partition) ==
    <<new_card(logo, title, content, center, partition)>> \o cs

\* add_card: the list after cards.append(card)
add_card(cs, logo, title, content, center, partition) ==
    Append(cs, new_card(logo, title, content, center, partition))

\* remove_card raises IndexError
remove_card_raises(cs, index) == ~InRange(cs, index)

\* remove_card: the list after cards.pop(index)
remove_card(cs, index) == Pop(cs, index)

\* reorder_card checking from_idx only
reorder_card_raises_from_only(cs, from_idx, to_idx) == ~InRange(cs, from_idx)

\* reorder_card raises IndexError
reorder_card_raises(cs, from_idx, to_idx) ==
    ~InRange(cs, from_idx) \/ ~InRange(cs, to_idx)

\* reorder_card inserting before it pops
reorder_card_insert_first(cs, from_idx, to_idx) ==
    Pop(Insert(cs, to_idx, At(cs, from_idx)), from_idx)

\* reorder_card reading to_idx against the original list when moving right
reorder_card_shifted(cs, from_idx, to_idx) ==
    Insert(Pop(cs, from_idx),
           IF from_idx < to_idx THEN to_idx - 1 ELSE to_idx, At(cs, from_idx))

\* reorder_card: pop(from_idx), then insert(to_idx, card) into the shortened list
reorder_card(cs, from_idx, to_idx) ==
    Insert(Pop(cs, from_idx), to_idx, At(cs, from_idx))

\* update_card raises IndexError
update_card_raises(cs, index) == ~InRange(cs, index)

\* if logo is not None: card["logo"] = logo
update_logo(card, kw) ==
    IF "logo" \in DOMAIN kw THEN SetKey(card, "logo", kw.logo) ELSE card

\* update_card storing an empty title as it stores a logo
update_title_keeps_empty(card, kw) ==
    IF "title" \in DOMAIN kw THEN SetKey(card, "title", kw.title) ELSE card

\* if title is not None: set when non-empty, else delete when present
update_title(card, kw) ==
    IF "title" \in DOMAIN kw
    THEN IF kw.title # "" THEN SetKey(card, "title", kw.title)
         ELSE IF Has(card, "title") THEN DelKey(card, "title") ELSE card
    ELSE card

\* if content is not None: card["content"] = [LiteralScalarString(content)]
update_content(card, kw) ==
    IF "content" \in DOMAIN kw
    THEN SetKey(card, "content", ContentBlock(kw.content)) ELSE card

\* update_card storing the flag it was given, false included
update_flag_stores_false(card, kw, flag) ==
    IF flag \in DOMAIN kw THEN SetKey(card, flag, kw[flag]) ELSE card

\* if <flag> is not None: True when truthy, else delete when present
update_flag(card, kw, flag) ==
    IF flag \in DOMAIN kw
    THEN IF kw[flag] THEN SetKey(card, flag, TRUE)
         ELSE IF Has(card, flag) THEN DelKey(card, flag) ELSE card
    ELSE card

\* the card update_card leaves at index; kw holds the parameters that are not None
updated_card(card, kw) ==
    update_flag(
        update_flag(
            update_content(update_title(update_logo(card, kw), kw), kw),
            kw, "center"),
        kw, "partition")

\* update_card: the list after the card at index was updated in place
update_card(cs, index, kw) == Replace(cs, index, updated_card(At(cs, index), kw))

\* The exception a core operation ends with when it is given None for the list
\* (load_cards of a file with no byte).  0 <= index < len(cards) is false
\* without len(cards) being evaluated when index is negative: update_card and
\* reorder_card then raise their IndexError, remove_card evaluates len(cards)
\* for the message of its own (line 89).
add_card_on_none == "AttributeError"

remove_card_on_none(index) == "TypeError"

reorder_card_on_none(from_idx, to_idx) ==
    IF from_idx < 0 THEN "IndexError" ELSE "TypeError"

update_card_on_none(index) == IF index < 0 THEN "IndexError" ELSE "TypeError"

(***************************************************************************)
(* The store (core.py 16-41).  y.dump under _yaml's settings (block style, *)
(* indent(mapping=2, sequence=4, offset=2), no wrapping) followed by the   *)
(* dedent writes a card as                                                 *)
(*     - logo: /assets/img/flower.svg      a key line; the first key of a  *)
(*       center: true                      card begins "- ", the others    *)
(*       title: X                          two spaces                      *)
(*       content:                                                          *)
(*         - |                             an item line: a literal block,  *)
(*           <p>hi</p>                     then its body lines             *)
(* with an empty list written [].  A string of a key is written plain,     *)
(* and in single quotes when it is empty or was loaded in single quotes.   *)
(* A block of a content is a LiteralScalarString and always written in     *)
(* literal style: "" is the item line "- |" with no body line, a text      *)
(* with no line end at its end has the header "|-", and "\n" has the       *)
(* header "|2+" (indentation stated, line ends kept) and an empty line as  *)
(* its body.  When "\n" is the last scalar of the document the emitter     *)
(* ends the document with the line "..."; that line begins in column 0, so *)
(* the dedent finds no common indentation and the text keeps the two       *)
(* spaces y.dump begins every line with.                                   *)
(* A line is kept as a record: t its kind, dash whether it begins a card,  *)
(* k its key, v the scalar on it, qt whether the scalar stands in single   *)
(* quotes, sh the columns the text it belongs to is shifted by (2 for a    *)
(* text that was not dedented), cut the number of bytes missing from its   *)
(* beginning (not 0 only where a shorter text was written over a longer    *)
(* one and ended inside the line).                                         *)
(***************************************************************************)
Flags == {"center", "partition"}

\* the characters of a value as y.dump writes it, quotes apart
scalar_text(k, val) ==
    IF k \in Flags THEN (IF val THEN "true" ELSE "false") ELSE val

\* whether y.dump writes the value of a pair in single quotes: a string that
\* was loaded in quotes (preserve_quotes), and the empty string
scalar_quoted(p) == Len(p) = 3 \/ (p[1] \notin Flags /\ p[2] = "")

\* a plain scalar as y.load reads it
scalar_value(v) ==
    CASE v = "true" -> TRUE
      [] v = "false" -> FALSE
      [] OTHER -> v

KeyLine(dash, k, v, qt) ==
    [t |-> "key", dash |-> dash, k |-> k, v |-> v, qt |-> qt, sh |-> 0, cut |-> 0]

ItemLine(v) == 
    [t |-> "item", dash |-> FALSE, k |-> "", v |-> v, qt |-> FALSE, sh |-> 0, cut |-> 0]

BodyLine(v) == 
    [t |-> "body", dash |-> FALSE, k |-> "", v |-> v, qt |-> FALSE, sh |-> 0, cut |-> 0]

FlowLine == 
    [t |-> "flow", dash |-> FALSE, k |-> "", v |-> "[]", qt |-> FALSE, sh |-> 0, cut |-> 0]

\* an empty line
BlankLine == 
    [t |-> "blank", dash |-> FALSE, k |-> "", v |-> "", qt |-> FALSE, sh |-> 0, cut |-> 0]

\* the line that ends a document
EndLine == 
    [t |-> "end", dash |-> FALSE, k |-> "", v |-> "...", qt |-> FALSE, sh |-> 0, cut |-> 0]

\* the line of a content that is one line and its line end
Body(content) == CHOOSE l \in ContentLines : l \o "\n" = content

\* a block of a content, a LiteralScalarString, in literal style
BlockLines(b) ==
    CASE b = "" -> <<ItemLine("|")>>
      [] b = "\n" -> <<ItemLine("|2+"), BlankLine>>
      [] b \in ContentLines -> <<ItemLine("|-"), BodyLine(b)>>
      [] OTHER -> <<ItemLine("|"), BodyLine(Body(b))>>

RECURSIVE BlocksLines(_)
BlocksLines(blocks) ==
    IF blocks = <<>> THEN <<>>
    ELSE BlockLines(Head(blocks)) \o BlocksLines(Tail(blocks))

PairLines(p, dash) ==
    IF p[1] = "content"
    THEN <<KeyLine(dash, "content", "", FALSE)>> \o BlocksLines(p[2])
    ELSE <<KeyLine(dash, p[1], scalar_text(p[1], p[2]), scalar_quoted(p))>>

RECURSIVE PairsLines(_, _)
PairsLines(pairs, dash) ==
    IF pairs = <<>> THEN <<>>
    ELSE PairLines(Head(pairs), dash) \o PairsLines(Tail(pairs), FALSE)

CardLines(card) == PairsLines(card, TRUE)

RECURSIVE CardsLines(_)
CardsLines(cs) ==
    IF cs = <<>> THEN <<>> ELSE CardLines(Head(cs)) \o CardsLines(Tail(cs))

\* whether y.dump ends the document with "...": its last scalar is a block
\* whose line ends are kept
EndsOpen(cs) ==
    /\ cs # <<>>
    /\ cs[Len(cs)] # <<>>
    /\ LET p == cs[Len(cs)][Len(cs[Len(cs)])]
       IN  /\ p[1] = "content"
           /\ p[2] # <<>>
           /\ p[2][Len(p[2])] = "\n"

\* a line as y.dump writes it, two columns to the right
Shifted(l) == IF l.t = "blank" THEN l ELSE [l EXCEPT !.sh = 2]

\* y.dump(cards, buf); textwrap.dedent(...): the text save_cards writes.  Every
\* card the model dumps has a key and every content a block.
dump_text(cs) ==
    IF cs = <<>> THEN <<FlowLine>>
    ELSE LET ls == CardsLines(cs)
         IN  IF EndsOpen(cs)
             THEN [i \in 1..Len(ls) |-> Shifted(ls[i])] \o <<EndLine>>
             ELSE ls

\* the column a whole line begins in ("- " of a card counted in)
Indent(l) ==
    CASE l.t = "key" -> 2 + l.sh
      [] l.t = "item" -> 4 + l.sh
      [] l.t = "body" -> 6 + l.sh
      [] OTHER -> 0

\* the length of a whole line in bytes, its line end included
FullBytes(l) ==
    CASE l.t = "key" ->
            IF l.qt THEN Indent(l) + Len(l.k) + 2 + Len(l.v) + 3
            ELSE IF l.v = "" THEN Indent(l) + Len(l.k) + 2
            ELSE Indent(l) + Len(l.k) + 2 + Len(l.v) + 1
      [] l.t = "item" -> Indent(l) + 2 + Len(l.v) + 1
      [] OTHER -> Indent(l) + Len(l.v) + 1

LineBytes(l) == FullBytes(l) - l.cut

\* the length of a text in bytes
RECURSIVE Size(_)
Size(text) == IF text = <<>> THEN 0 ELSE LineBytes(Head(text)) + Size(Tail(text))

\* the bytes of a text from offset n on
RECURSIVE DropBytes(_, _)
DropBytes(text, n) ==
    IF text = <<>> \/ n = 0 THEN text
    ELSE IF n >= LineBytes(Head(text))
    THEN DropBytes(Tail(text), n - LineBytes(Head(text)))
    ELSE <<[Head(text) EXCEPT !.cut = @ + n]>> \o Tail(text)

\* open(CARDS_PATH, "w"): the file is truncated to no bytes
opened_for_writing == <<>>

\* f.write(text) and the close: the bytes of text written from offset 0 of a
\* file that holds old; the bytes of old beyond the length of text stay
written(old, text) == text \o DropBytes(old, Size(text))

\* save_cards as one step: open(CARDS_PATH, "w") and f.write(text) with no
\* other access to the file in between
save_cards(cs) == written(opened_for_writing, dump_text(cs))

(***************************************************************************)
(* load_cards.  Texts that save_cards wrote are read back as the list they *)
(* were written from.  A file two overlapping saves wrote holds a text and *)
(* then the bytes of a longer one from some offset on; what y.load makes   *)
(* of it follows YAML's block structure, line by line, by the column each  *)
(* line begins in:                                                         *)
(*   - the first line that begins a card fixes the column r of the list;   *)
(*     a later one is accepted in that column alone, and the keys of its   *)
(*     card stand in column m, two to its right;                           *)
(*   - a key line in column m goes on with the open card, and is an error  *)
(*     for a key the card has (DuplicateKeyError);                         *)
(*   - the first item line after "content:" fixes the column q of the      *)
(*     blocks; an item line in column r is an item of the list that is a   *)
(*     string, not a card;                                                 *)
(*   - a literal block takes every line indented as deep as its text: the  *)
(*     indentation d is that of its first line that is not empty, at least *)
(*     one column right of the item's "-", or is stated in the header      *)
(*     ("|2+": two columns right of the "-"); empty lines before the text  *)
(*     are part of it; "|" keeps one line end at the end, "|-" none, "|2+" *)
(*     every one;                                                          *)
(*   - after a plain scalar (true, X, a logo path) any line further right  *)
(*     than the keys is read as the scalar going on, an error if it holds  *)
(*     a key;                                                              *)
(*   - "..." ends the document, and only empty lines may follow: anything  *)
(*     else, a second "..." included, is a second document;                *)
(*   - what is left of a line cut beyond its indentation is text in column *)
(*     0 or, where the cut left a space first, column 1; a line cut to its *)
(*     line end alone is an empty line, and "- |-" cut to "-" is an item   *)
(*     with no value.                                                      *)
(* The parser's state: st where it stands in the stream, doc the cards so  *)
(* far, foreign whether the document is no card list the model's values    *)
(* express (an item that is no card, a flag that is a string, a content    *)
(* that is no list, a block that is not one of the model's contents), ctx  *)
(* the kind of the open item of the list, vs the kind of the open value of *)
(* a card, lit where an open literal block stands, chomp what its header   *)
(* says of line ends, nb whether empty lines came since its last text, sep *)
(* the number of empty lines that came just before outside a block.        *)
(***************************************************************************)
Tok(l) ==
    IF l.t = "blank" \/ (l.cut > 0 /\ LineBytes(l) = 1) THEN "blank"
    ELSE IF l.t = "key" /\ l.dash /\ l.cut <= Indent(l) - 2 THEN "card"
    ELSE IF l.t = "key" /\ l.cut <= Indent(l) THEN "key"
    ELSE IF l.t = "key" /\ (l.v # "" \/ l.qt)
                        /\ l.cut = Indent(l) + Len(l.k) + 1 THEN "frag"
    ELSE IF l.t = "item" /\ l.cut <= Indent(l) THEN "entry"
    ELSE IF l.t = "item" /\ l.cut = Indent(l) + 1 THEN "frag"
    ELSE IF l.t = "item" /\ l.v = "|-" /\ l.cut = Indent(l) + 3 THEN "dash"
    ELSE IF l.t = "body" /\ l.cut <= Indent(l) THEN "text"
    ELSE IF l.t = "flow" /\ l.cut = 0 THEN "flow"
    ELSE IF l.t = "end" /\ l.cut = 0 THEN "end"
    ELSE "junk"

\* the column what is left of a line begins in
Col(l) ==
    LET tok == Tok(l)
    IN  IF tok = "card" THEN Indent(l) - 2 - l.cut
        ELSE IF tok \in {"key", "entry", "text"} THEN Indent(l) - l.cut
        ELSE IF tok = "frag" THEN 1
        ELSE 0

ParseStart ==
    [st |-> "start", doc |-> <<>>, foreign |-> FALSE, r |-> 0, ctx |-> "none",
     m |-> 0, vs |-> "none", q |-> 0, lit |-> "none", chomp |-> "clip", d |-> 0,
     nb |-> 0, sep |-> 0]

ParseFail == [ParseStart EXCEPT !.st = "error"]

\* the kind of the value a key line opens: none on the line, quoted or plain
KeyState(l) ==
    IF l.qt THEN "quoted" ELSE IF l.v = "" THEN "nokey" ELSE "plain"

\* the pair of a key line; the blocks of a content follow on their own lines
KeyPair(l) ==
    IF l.qt THEN <<l.k, l.v, "'">>
    ELSE <<l.k, IF l.k = "content" THEN <<>> ELSE scalar_value(l.v)>>

LastCard(doc) == doc[Len(doc)]

WithLastCard(doc, card) == [doc EXCEPT ![Len(doc)] = card]

\* the open card with its last value replaced
WithLastValue(doc, v) ==
    WithLastCard(doc, [LastCard(doc) EXCEPT ![Len(LastCard(doc))][2] = v])

LastValue(doc) == LastCard(doc)[Len(LastCard(doc))][2]

\* the open content with its last block replaced
WithLastBlock(doc, b) ==
    WithLastValue(doc, [LastValue(doc) EXCEPT ![Len(LastValue(doc))] = b])

\* what a block header says of the line ends at the end of its text
Chomp(v) == IF v = "|-" THEN "strip" ELSE IF v = "|2+" THEN "keep" ELSE "clip"

RECURSIVE LineEnds(_)
LineEnds(n) == IF n = 0 THEN "" ELSE "\n" \o LineEnds(n - 1)

InLiteral(s) == s.lit \in {"head", "lit"}

\* whether the open literal block takes a line of column c
Takes(s, c) ==
    /\ InLiteral(s)
    /\ IF s.lit = "head" /\ s.d = 0
       THEN c >= (IF s.ctx = "card" THEN s.q ELSE s.r) + 1
       ELSE c >= s.d

\* a line taken as text of the open literal block: the one line of a content
\* when it is the first of the block, anything else makes a block that is
\* none of the model's
Absorb(s, l, tok, c) ==
    LET d == IF s.d = 0 THEN c ELSE s.d
        good == /\ s.lit = "head"
                /\ s.nb = 0
                /\ tok = "text"
                /\ d = c
                /\ l.v \in ContentLines
    IN  IF s.ctx # "card"
        THEN [s EXCEPT !.lit = "lit", !.d = d, !.nb = 0, !.sep = 0]
        ELSE IF ~good
        THEN [s EXCEPT !.lit = "lit", !.d = d, !.nb = 0, !.sep = 0,
                       !.foreign = TRUE]
        ELSE [s EXCEPT !.lit = "lit", !.d = d, !.nb = 0, !.sep = 0,
                       !.doc = WithLastBlock(s.doc,
                                   IF s.chomp = "strip" THEN l.v
                                   ELSE l.v \o "\n")]

\* an empty line
Blank(s) ==
    IF ~InLiteral(s) THEN [s EXCEPT !.sep = @ + 1]
    ELSE IF s.ctx = "card" /\ s.chomp = "keep"
    THEN IF s.lit = "head" /\ s.nb = 0
         THEN [s EXCEPT !.nb = 1, !.doc = WithLastBlock(s.doc, "\n")]
         ELSE [s EXCEPT !.nb = 1, !.foreign = TRUE]
    ELSE [s EXCEPT !.nb = 1]

\* a plain scalar going on over a further line: the line is folded into it
Continued(s, more) ==
    IF s.ctx = "rootplain" THEN [s EXCEPT !.sep = 0]
    ELSE IF LastCard(s.doc)[Len(LastCard(s.doc))][1] \in Flags
    THEN [s EXCEPT !.foreign = TRUE, !.sep = 0]
    ELSE [s EXCEPT !.sep = 0,
                   !.doc = WithLastValue(s.doc,
                               LastValue(s.doc)
                               \o (IF s.sep = 0 THEN " " ELSE LineEnds(s.sep))
                               \o more)]

\* an item line whose "-" stands in column c: a block of the open content, or
\* an item of the list that is a string
Entry(s, l, c, ofList) ==
    LET e == [s EXCEPT !.lit = "head", !.chomp = Chomp(l.v),
                       !.d = IF l.v = "|2+" THEN c + 2 ELSE 0,
                       !.nb = 0, !.sep = 0]
    IN  IF ofList
        THEN [e EXCEPT !.ctx = "rootlit", !.vs = "none", !.foreign = TRUE]
        ELSE [e EXCEPT !.vs = "seq", !.q = c,
                       !.doc = WithLastValue(s.doc, Append(LastValue(s.doc), ""))]

\* a line that no open block or scalar takes: the structure of the list
Structure(s0, l, tok, c) ==
    LET \* a content with no item has no list
        nolist == s0.foreign \/ (s0.ctx = "card" /\ s0.vs = "nokey")
        s == [s0 EXCEPT !.lit = "none", !.nb = 0, !.sep = 0]
    IN  IF tok = "end" THEN [s EXCEPT !.st = "end", !.foreign = nolist]
        ELSE IF tok = "card" /\ c = s.r
        THEN [s EXCEPT !.ctx = "card", !.m = c + 2, !.vs = KeyState(l),
                       !.doc = Append(s.doc, <<KeyPair(l)>>),
                       !.foreign = nolist]
        ELSE IF tok = "key" /\ s.ctx = "card" /\ c = s.m
        THEN IF Has(LastCard(s.doc), l.k) THEN ParseFail
             ELSE [s EXCEPT !.vs = KeyState(l),
                            !.doc = WithLastCard(s.doc,
                                        Append(LastCard(s.doc), KeyPair(l))),
                            !.foreign = nolist]
        ELSE IF tok = "entry" /\ s.ctx = "card" /\ s.vs = "nokey" /\ c >= s.m
        THEN Entry(s, l, c, FALSE)
        ELSE IF tok = "entry" /\ s.ctx = "card" /\ s.vs = "seq" /\ c = s.q
        THEN Entry(s, l, c, FALSE)
        ELSE IF tok = "entry" /\ c = s.r
        THEN Entry([s EXCEPT !.foreign = nolist], l, c, TRUE)
        ELSE IF tok = "dash" /\ c = s.r
        THEN [s EXCEPT !.ctx = "rootnull", !.vs = "none", !.foreign = TRUE]
        ELSE IF tok = "text" /\ s.ctx = "rootnull" /\ c > s.r
        THEN [s EXCEPT !.ctx = "rootplain"]
        ELSE ParseFail

ParseStep(s, l) ==
    LET tok == Tok(l)
        c == Col(l)
    IN  IF s.st = "error" THEN s
        ELSE IF tok = "blank" THEN Blank(s)
        ELSE IF tok = "junk" THEN ParseFail
        ELSE IF s.st = "start"
        THEN IF tok = "flow" THEN [s EXCEPT !.st = "flow"]
             ELSE IF tok = "card"
             THEN [s EXCEPT !.st = "doc", !.r = c, !.ctx = "card",
                            !.m = c + 2, !.vs = KeyState(l),
                            !.doc = <<<<KeyPair(l)>>>>]
             ELSE ParseFail
        ELSE IF s.st = "flow"
        THEN IF tok = "end" THEN [s EXCEPT !.st = "end"] ELSE ParseFail
        ELSE IF s.st = "end" THEN ParseFail
        ELSE IF Takes(s, c) THEN Absorb(s, l, tok, c)
        ELSE IF \/ s.ctx = "card" /\ s.vs = "plain" /\ c > s.m
                \/ s.ctx = "rootplain" /\ c > s.r
        THEN IF tok \in {"text", "frag"} THEN Continued(s, l.v)
             ELSE IF tok = "entry" THEN Continued(s, "- " \o l.v)
             ELSE ParseFail
        ELSE Structure(s, l, tok, c)

\* the state after the lines of text from the i-th on
RECURSIVE Parse(_, _, _)
Parse(text, i, s) ==
    IF i > Len(text) THEN s ELSE Parse(text, i + 1, ParseStep(s, text[i]))

\* load_cards: y.load(f) gives None for a file with no byte and raises for a
\* text that is no YAML document
load_cards(text) ==
    LET s == Parse(text, 1, ParseStart)
    IN  CASE s.st = "start" -> [kind |-> "None", cards |-> <<>>]
          [] s.st = "error" -> [kind |-> "ParseError", cards |-> <<>>]
          [] s.foreign \/ (s.ctx = "card" /\ s.vs = "nokey") ->
                [kind |-> "foreign", cards |-> <<>>]
          [] OTHER -> [kind |-> "list", cards |-> s.doc]

NoResponse == [kind |-> "none", status |-> 0]

\* no command waits for its user
NoCommand == [pc |-> "idle", index |-> 0, data |-> <<>>]

\* a repository with nothing to stage, commit or push
CleanRepo == [work |-> 0, index |-> 0, head |-> 0, remote |-> 0]

\* the two invocations
Procs == {1, 2}

NoPublish ==
    [pc |-> "idle", caller |-> "none", ran |-> <<>>,
     answer |-> [ok |-> TRUE, step |-> "none", rc |-> 0]]

NotStarted ==
    [pc |-> "start", req |-> [op |-> "none"], kind |-> "list", snap |-> <<>>,
     data |-> <<>>, status |-> 0]

(***************************************************************************)
(* Spec: one call of a core operation.  The list and the arguments are     *)
(* drawn from bounded sets; `last` records the call (its arguments, the    *)
(* list it was given, whether it raised IndexError, the card it returned)  *)
(* and `prev` the call before it.  After a remove_card that succeeded one  *)
(* add_card may follow (remove followed by re-add).                        *)
(***************************************************************************)
\* a card's fields as the front ends read them: card.get("logo", ""),
\* card.get("title", ""), str(card["content"][0]), card.get("center", False),
\* card.get("partition", False)
FieldsOf(card) ==
    [logo |-> IF Has(card, "logo") THEN Get(card, "logo") ELSE "",
     title |-> IF Has(card, "title") THEN Get(card, "title") ELSE "",
     content |-> IF Has(card, "content") /\ Len(Get(card, "content")) > 0
                 THEN Get(card, "content")[1] ELSE "",
     center |-> IF Has(card, "center") THEN Get(card, "center") ELSE FALSE,
     partition |-> IF Has(card, "partition") THEN Get(card, "partition") ELSE FALSE]

\* a parameter left at None is <<>>, a parameter given the value v is <<v>>
Opt(S) == {<<>>} \cup {<<v>> : v \in S}

\* the keyword arguments of update_card that are not None
Kw(logo, title, content, center, partition) ==
    [k \in {x \in {"logo"} : logo # <<>>} \cup {x \in {"title"} : title # <<>>}
           \cup {x \in {"content"} : content # <<>>}
           \cup {x \in {"center"} : center # <<>>}
           \cup {x \in {"partition"} : partition # <<>>} |->
        CASE k = "logo" -> logo[1]
          [] k = "title" -> title[1]
          [] k = "content" -> content[1]
          [] k = "center" -> center[1]
          [] k = "partition" -> partition[1]]

UpdateKws ==
    {Kw(l, t, c, ce, pa) : l \in Opt(LogoVals), t \in Opt(TitleVals),
                           c \in Opt(ContentVals), ce \in Opt(BOOLEAN),
                           pa \in Opt(BOOLEAN)}

\* the arguments of add_card, all given
AddArgs ==
    [logo : LogoVals, title : TitleVals, content : ContentVals,
     center : BOOLEAN, partition : BOOLEAN]

\* indices a single core call is given: from below -len (the negative indices
\* a list itself would accept are -len .. -1) to above len
OpsIndices(cs) == (0 - Len(cs) - 1) .. (Len(cs) + 1)

\* the cards the lists of Spec are made of: cards as add_card builds them, a
\* card with an empty logo and a card with its title after its content, as a
\* hand-edited file or an update_card leaves them
OpsCards ==
    {new_card("", "", "", FALSE, FALSE),
     new_card("/assets/img/flower.svg", "X", "<p>hi</p>\n", TRUE, TRUE),
     new_card("/assets/img/flower.svg", "", "<p>hi</p>\n", FALSE, FALSE),
     new_card("", "X", "", TRUE, FALSE),
     SetKey(new_card("", "", "", FALSE, TRUE), "logo", ""),
     SetKey(new_card("", "", "", FALSE, FALSE), "title", "X")}

SeqsUpTo(S, n) == UNION {[1..k -> S] : k \in 0..n}

NoCall ==
    [op |-> "none", raised |-> FALSE, pre |-> <<>>, index |-> 0, to |-> 0,
     kw |-> <<>>, ret |-> EmptyCard]

Init ==
    /\ cards \in SeqsUpTo(OpsCards, MaxCards)
    /\ last = NoCall
    /\ prev = NoCall
    /\ calls = 0
    /\ file = dump_text(<<>>)
    /\ resp = NoResponse
    /\ term = NoCommand
    /\ saves = 0
    /\ proc = [p \in Procs |-> NotStarted]
    /\ events = <<>>
    /\ git = CleanRepo
    /\ pub = [p \in Procs |-> NoPublish]

\* add_card(cards, **args); also the re-add after a successful remove_card
AddCard ==
    /\ last.op = "none" \/ (last.op = "remove" /\ ~last.raised)
    /\ \E a \in AddArgs :
        /\ cards' = add_card(cards, a.logo, a.title, a.content, a.center, a.partition)
        /\ last' = [op |-> "add", raised |-> FALSE, pre |-> cards, index |-> 0,
                    to |-> 0, kw |-> a,
                    ret |-> new_card(a.logo, a.title, a.content, a.center, a.partition)]
    /\ prev' = last
    /\ UNCHANGED <<calls, seqVars, raceVars, pubVars>>

\* update_card(cards, index, **kw)
UpdateCard ==
    /\ last.op = "none"
    /\ \E index \in OpsIndices(cards), kw \in UpdateKws :
        /\ cards' = IF update_card_raises(cards, index) THEN cards
                    ELSE update_card(cards, index, kw)
        /\ last' = [op |-> "update", raised |-> update_card_raises(cards, index),
                    pre |-> cards, index |-> index, to |-> 0, kw |-> kw,
                    ret |-> EmptyCard]
    /\ prev' = last
    /\ UNCHANGED <<calls, seqVars, raceVars, pubVars>>

\* remove_card(cards, index)
RemoveCard ==
    /\ last.op = "none"
    /\ \E index \in OpsIndices(cards) :
        /\ cards' = IF remove_card_raises(cards, index) THEN cards
                    ELSE remove_card(cards, index)
        /\ last' = [op |-> "remove", raised |-> remove_card_raises(cards, index),
                    pre |-> cards, index |-> index, to |-> 0, kw |-> <<>>,
                    ret |-> IF remove_card_raises(cards, index) THEN EmptyCard
                            ELSE At(cards, index)]
    /\ prev' = last
    /\ UNCHANGED <<calls, seqVars, raceVars, pubVars>>

\* reorder_card(cards, from_idx, to_idx)
ReorderCard ==
    /\ last.op = "none"
    /\ \E from_idx \in OpsIndices(cards), to_idx \in OpsIndices(cards) :
        /\ cards' = IF reorder_card_raises(cards, from_idx, to_idx) THEN cards
                    ELSE reorder_card(cards, from_idx, to_idx)
        /\ last' = [op |-> "reorder",
                    raised |-> reorder_card_raises(cards, from_idx, to_idx),
                    pre |-> cards, index |-> from_idx, to |-> to_idx,
                    kw |-> <<>>, ret |-> EmptyCard]
    /\ prev' = last
    /\ UNCHANGED <<calls, seqVars, raceVars, pubVars>>

Next == AddCard \/ UpdateCard \/ RemoveCard \/ ReorderCard

Spec == Init /\ [][Next]_vars

(***************************************************************************)
(* Claims about the core operations, checked under Spec.                   *)
(***************************************************************************)
\* the indices the last call addressed are all valid for the list it was given
LastInRange ==
    /\ InRange(last.pre, last.index)
    /\ last.op = "reorder" => InRange(last.pre, last.to)

\* C1: update_card, remove_card and reorder_card given an index that is negative
\* or >= the length of the list (for reorder_card either index, the other being
\* arbitrary) raise IndexError and leave the list exactly as it was: the same
\* cards in the same order, each with the same keys, in the same order, and the
\* same values.
C1_OutOfRangeRaisesAndKeepsList ==
    (last.op \in {"update", "remove", "reorder"} /\ ~LastInRange)
        => (last.raised /\ cards = last.pre)

\* reorder_card was given a valid from_idx and to_idx = len, and raised
C1_Witness ==
    /\ last.op = "reorder"
    /\ InRange(last.pre, last.index)
    /\ last.to = Len(last.pre)
    /\ last.raised
    /\ cards = last.pre
    /\ Len(cards) >= 2

\* C2: reorder_card(cards, 0, len(cards)-1) on a non-empty list moves the first
\* card to the end and keeps the other cards in their order; reorder_card(cards,
\* i, i) with i valid leaves the list as it was.
C2_ReorderFirstToEndAndSame ==
    (last.op = "reorder" /\ LastInRange) =>
        /\ ~last.raised
        /\ (last.index = 0 /\ last.to = Len(last.pre) - 1)
               => cards = Tail(last.pre) \o <<Head(last.pre)>>
        /\ last.index = last.to => cards = last.pre

\* the first of three cards, different from the others, was moved to the end
C2_Witness ==
    /\ last.op = "reorder"
    /\ ~last.raised
    /\ Len(last.pre) = 3
    /\ last.index = 0
    /\ last.to = 2
    /\ last.pre[1] # last.pre[2]
    /\ last.pre[2] # last.pre[3]
    /\ cards = <<last.pre[2], last.pre[3], last.pre[1]>>

\* C3: update_card at a valid index with title="" leaves the card without a
\* title key (removed, or still absent); with a non-empty title it leaves the
\* card's title equal to it; with title not given it leaves the title as it was,
\* present with the same value or absent.
C3_UpdateTitle ==
    (last.op = "update" /\ LastInRange) =>
        /\ ~last.raised
        /\ LET old == At(last.pre, last.index)
               new == At(cards, last.index)
           IN  /\ ("title" \in DOMAIN last.kw /\ last.kw.title = "")
                      => ~Has(new, "title")
               /\ ("title" \in DOMAIN last.kw /\ last.kw.title # "")
                      => (Has(new, "title") /\ Get(new, "title") = last.kw.title)
               /\ "title" \notin DOMAIN last.kw
                      => /\ Has(new, "title") <=> Has(old, "title")
                         /\ Has(old, "title")
                                => Get(new, "title") = Get(old, "title")

\* update_card(title="") removed the title a card had
C3_Witness ==
    /\ last.op = "update"
    /\ ~last.raised
    /\ "title" \in DOMAIN last.kw
    /\ last.kw.title = ""
    /\ Has(At(last.pre, last.index), "title")
    /\ ~Has(At(cards, last.index), "title")

\* the last two calls were remove_card(cards, index), which succeeded, and
\* add_card of the removed card's fields
ReAdded ==
    /\ last.op = "add"
    /\ prev.op = "remove"
    /\ ~prev.raised
    /\ last.kw = FieldsOf(prev.ret)

\* the keys of a card with their values, whatever their order
Fields(card) == [k \in Keys(card) |-> Get(card, k)]

\* two lists hold cards of the same fields in the same order
SameCards(xs, ys) ==
    /\ Len(xs) = Len(ys)
    /\ \A i \in 1..Len(xs) : Fields(xs[i]) = Fields(ys[i])

\* C6 as stated: remove_card at a valid index followed by add_card of the removed
\* card's fields gives a list different from the original one unless index was
\* the last index.
C6_ReAddChangesOrderUnlessLast ==
    (ReAdded /\ SameCards(cards, prev.pre)) => prev.index = Len(prev.pre) - 1

\* C6 amended: ... gives a list different from the original one unless index
\* was the last index or every card after index is equal to the card at index.
C6_ReAddChangesOrderUnlessTailEqual ==
    (ReAdded /\ SameCards(cards, prev.pre)) =>
        \A j \in prev.index .. (Len(prev.pre) - 1) :
            Fields(At(prev.pre, j)) = Fields(At(prev.pre, prev.index))

\* a card that was not the last one was removed and re-added, and the list changed
C6_Witness ==
    /\ ReAdded
    /\ prev.index < Len(prev.pre) - 1
    /\ ~SameCards(cards, prev.pre)
    /\ Len(cards) = Len(prev.pre)

\* C10: reorder_card with both indices valid leaves the card that was at
\* from_idx at position to_idx of the result, keeps the length, and keeps all
\* other cards in their original relative order (the result without position
\* to_idx is the original without position from_idx).
C10_ReorderLandsAtToIndex ==
    (last.op = "reorder" /\ LastInRange) =>
        /\ ~last.raised
        /\ Len(cards) = Len(last.pre)
        /\ At(cards, last.to) = At(last.pre, last.index)
        /\ Pop(cards, last.to) = Pop(last.pre, last.index)

\* a card moved right over at least one other card, to a position before the end
C10_Witness ==
    /\ last.op = "reorder"
    /\ ~last.raised
    /\ last.index < last.to
    /\ last.to < Len(last.pre) - 1
    /\ At(last.pre, last.index) # At(last.pre, last.to)
    /\ At(cards, last.to) = At(last.pre, last.index)
    /\ cards # last.pre

(***************************************************************************)
(* SpecCalls: sequences of calls of the core operations, each with any     *)
(* arguments, on a list that starts with no false flag.  last records of   *)
(* an update_card the flags the card had and was given as false.           *)
(***************************************************************************)
\* the lists SpecCalls starts from; the calls that add make the longer ones
CallsInitLists ==
    {<<>>,
     <<new_card("/assets/img/flower.svg", "X", "<p>hi</p>\n", TRUE, TRUE)>>}

\* a call that is no update_card of a card
Called(op, raised) ==
    [op |-> op, raised |-> raised, index |-> 0, unset |-> {}]

InitCalls ==
    /\ cards \in CallsInitLists
    /\ last = Called("none", FALSE)
    /\ prev = NoCall
    /\ calls = 0
    /\ file = dump_text(<<>>)
    /\ resp = NoResponse
    /\ term = NoCommand
    /\ saves = 0
    /\ proc = [p \in Procs |-> NotStarted]
    /\ events = <<>>
    /\ git = CleanRepo
    /\ pub = [p \in Procs |-> NoPublish]

\* add_card(cards, **args)
CallAdd ==
    /\ calls < MaxCalls
    /\ Len(cards) < MaxCards
    /\ \E a \in AddArgs :
        cards' = add_card(cards, a.logo, a.title, a.content, a.center, a.partition)
    /\ last' = Called("add", FALSE)
    /\ calls' = calls + 1
    /\ UNCHANGED <<prev, seqVars, raceVars, pubVars>>

\* update_card(cards, index, **kw); a call that raises has not looked at kw
CallUpdate ==
    /\ calls < MaxCalls
    /\ \E index \in OpsIndices(cards) :
        IF update_card_raises(cards, index)
        THEN /\ cards' = cards
             /\ last' = Called("update", TRUE)
        ELSE \E kw \in UpdateKws :
             /\ cards' = update_card(cards, index, kw)
             /\ last' = [op |-> "update", raised |-> FALSE, index |-> index,
                         unset |-> {f \in Flags \cap DOMAIN kw :
                                       ~kw[f] /\ Has(At(cards, index), f)}]
    /\ calls' = calls + 1
    /\ UNCHANGED <<prev, seqVars, raceVars, pubVars>>

\* remove_card(cards, index)
CallRemove ==
    /\ calls < MaxCalls
    /\ \E index \in OpsIndices(cards) :
        /\ cards' = IF remove_card_raises(cards, index) THEN cards
                    ELSE remove_card(cards, index)
        /\ last' = Called("remove", remove_card_raises(cards, index))
    /\ calls' = calls + 1
    /\ UNCHANGED <<prev, seqVars, raceVars, pubVars>>

\* reorder_card(cards, from_idx, to_idx)
CallReorder ==
    /\ calls < MaxCalls
    /\ \E from_idx \in OpsIndices(cards), to_idx \in OpsIndices(cards) :
        /\ cards' = IF reorder_card_raises(cards, from_idx, to_idx) THEN cards
                    ELSE reorder_card(cards, from_idx, to_idx)
        /\ last' = Called("reorder", reorder_card_raises(cards, from_idx, to_idx))
    /\ calls' = calls + 1
    /\ UNCHANGED <<prev, seqVars, raceVars, pubVars>>

NextCalls == CallAdd \/ CallUpdate \/ CallRemove \/ CallReorder

SpecCalls == InitCalls /\ [][NextCalls]_vars

\* C5: starting from a list in which no card has center or partition false,
\* after any sequence of add_card, update_card, remove_card and reorder_card
\* calls with any arguments every card either lacks the center (partition)
\* key or has it equal to true.
C5_FlagsNeverFalse ==
    \A i \in 1..Len(cards) : \A f \in Flags :
        Has(cards[i], f) => Get(cards[i], f) = TRUE

\* the last call of a sequence was an update_card given center false for a
\* card that had center: the card is left without center, and with partition
\* true
C5_Witness ==
    /\ calls = MaxCalls
    /\ last.op = "update"
    /\ ~last.raised
    /\ last.unset = {"center"}
    /\ ~Has(At(cards, last.index), "center")
    /\ Has(At(cards, last.index), "partition")
    /\ Get(At(cards, last.index), "partition") = TRUE

(***************************************************************************)
(* Front-end invocations.  An invocation is load_cards, a core operation   *)
(* on the loaded list, save_cards and an answer: the HTTP status of a web  *)
(* handler, the exit status of a command.  A handler answers 400 to the    *)
(* IndexError it catches; any other exception is answered 500 by the web   *)
(* server and ends a command with exit status 1; nothing is saved then.    *)
(***************************************************************************)
\* the core operation of a request raises IndexError on a list
RequestRaises(req, cs) ==
    CASE req.op = "add" -> FALSE
      [] req.op = "update" -> update_card_raises(cs, req.index)
      [] req.op = "delete" -> remove_card_raises(cs, req.index)
      [] req.op = "reorder" -> reorder_card_raises(cs, req.from, req.to)

\* the list the core operation of a request leaves
RequestResult(req, cs) ==
    CASE req.op = "add" ->
            add_card(cs, req.args.logo, req.args.title, req.args.content,
                     req.args.center, req.args.partition)
      [] req.op = "update" -> update_card(cs, req.index, req.kw)
      [] req.op = "delete" -> remove_card(cs, req.index)
      [] req.op = "reorder" -> reorder_card(cs, req.from, req.to)

\* the exception an invocation ends with before it saves, "none" when it saves
RequestException(req, ld) ==
    CASE ld.kind = "ParseError" -> "ParseError"
      [] ld.kind = "None" ->
            (CASE req.op = "add" -> add_card_on_none
               [] req.op = "update" -> update_card_on_none(req.index)
               [] req.op = "delete" -> remove_card_on_none(req.index)
               [] req.op = "reorder" -> reorder_card_on_none(req.from, req.to))
      [] ld.kind = "list" ->
            IF RequestRaises(req, ld.cards) THEN "IndexError" ELSE "none"

\* the status a web handler answers with (app.py 75-77, 86-88, 98-100)
web_status(exc) ==
    CASE exc = "none" -> 200
      [] exc = "IndexError" -> 400
      [] OTHER -> 500

\* the exit status of a command (cli.py 172-174; an uncaught exception ends the
\* interpreter with status 1)
exit_status(exc) == IF exc = "none" THEN 0 ELSE 1

\* indices a path /api/cards/<int:idx> delivers: the converter matches digits
\* only; the valid ones and len
RouteIndices(cs) == 0 .. Len(cs)

\* indices a JSON body or a command line delivers: -1, the valid ones, and len
Indices(cs) == (0 - 1) .. Len(cs)

(***************************************************************************)
(* SpecSeq: web requests and commands on the file of one site.  A web      *)
(* request and the commands add and reorder load, operate and save without *)
(* waiting, and are one step each.  The commands edit and remove load,     *)
(* then wait for their user (click.prompt, click.confirm, the editor),     *)
(* then operate on what they loaded and save: two steps, between which any *)
(* other invocation may run.  One command at a time waits.                 *)
(***************************************************************************)
\* the lists in the file SpecSeq starts from: no card, or one card with every
\* key and its logo in single quotes; the invocations that add make the other
\* lists
SeqInitLists ==
    {<<>>,
     <<InQuotes(new_card("/assets/img/flower.svg", "X", "<p>hi</p>\n", TRUE, TRUE),
                "logo")>>}

InitSeq ==
    /\ cards = <<>>
    /\ last = NoCall
    /\ prev = NoCall
    /\ calls = 0
    /\ file \in {dump_text(cs) : cs \in SeqInitLists}
    /\ resp = NoResponse
    /\ term = NoCommand
    /\ saves = 0
    /\ proc = [p \in Procs |-> NotStarted]
    /\ events = <<>>
    /\ git = CleanRepo
    /\ pub = [p \in Procs |-> NoPublish]

\* the list an invocation loads now, when load_cards returns one
Loaded == load_cards(file).cards

\* the bodies of POST /api/cards; a key the body lacks takes its default, ""
\* or False
WebAddArgs ==
    {[logo |-> "", title |-> "", content |-> "", center |-> FALSE,
      partition |-> FALSE],
     [logo |-> "/assets/img/flower.svg", title |-> "X", content |-> "<p>hi</p>\n",
      center |-> TRUE, partition |-> TRUE],
     [logo |-> "/assets/img/flower.svg", title |-> "", content |-> "<p>hi</p>",
      center |-> FALSE, partition |-> TRUE],
     [logo |-> "", title |-> "X", content |-> "\n", center |-> TRUE,
      partition |-> FALSE]}

\* the answers to the prompts of cards add (cli.py 62-65): the defaults, or a
\* logo and a title and yes to both questions
PromptAnswers ==
    {[logo |-> "", title |-> "", center |-> FALSE, partition |-> FALSE],
     [logo |-> "/assets/img/flower.svg", title |-> "X", center |-> TRUE,
      partition |-> TRUE]}

\* the content lines a user enters before Ctrl-D (cli.py 68-74): none or one
TypedLines == {<<>>} \cup {<<l>> : l \in ContentLines}

\* "\n".join(lines)
RECURSIVE Joined(_)
Joined(lines) ==
    IF lines = <<>> THEN ""
    ELSE IF Len(lines) = 1 THEN Head(lines)
    ELSE Head(lines) \o "\n" \o Joined(Tail(lines))

\* what cards add passes: the answers to its prompts, and as content the
\* lines entered joined, with a line end added (cli.py 75); no line gives "\n"
CliAddArgs ==
    {[logo |-> a.logo, title |-> a.title, content |-> Joined(ls) \o "\n",
      center |-> a.center, partition |-> a.partition] :
        a \in PromptAnswers, ls \in TypedLines}

\* the bodies of PUT /api/cards/<idx>: no key or one
WebKws == {kw \in UpdateKws : Cardinality(DOMAIN kw) <= 1}

\* one load-operate-save invocation that does not wait, and its answer: the
\* HTTP status of a handler, the exit status of a command
Invocation(kind, req, ld) ==
    LET exc == RequestException(req, ld)
    IN  /\ file' = IF exc = "none" THEN save_cards(RequestResult(req, ld.cards))
                   ELSE file
        /\ saves' = IF exc = "none" THEN saves + 1 ELSE saves
        /\ resp' = [kind |-> kind,
                    status |-> IF kind = "http" THEN web_status(exc)
                               ELSE exit_status(exc)]
        /\ UNCHANGED <<term, opsVars, raceVars, pubVars>>

\* POST /api/cards
api_cards_add ==
    LET ld == load_cards(file)
    IN  /\ saves < MaxSeqSaves
        /\ \E a \in WebAddArgs :
               Invocation("http", [op |-> "add", args |-> a], ld)

\* PUT /api/cards/<idx>
api_cards_update ==
    LET ld == load_cards(file)
    IN  /\ saves < MaxSeqSaves
        /\ \E idx \in RouteIndices(ld.cards), kw \in WebKws :
               Invocation("http",
                          [op |-> "update", index |-> idx, kw |-> kw], ld)

\* DELETE /api/cards/<idx>
api_cards_delete ==
    LET ld == load_cards(file)
    IN  /\ saves < MaxSeqSaves
        /\ \E idx \in RouteIndices(ld.cards) :
               Invocation("http", [op |-> "delete", index |-> idx], ld)

\* POST /api/cards/reorder
api_cards_reorder ==
    LET ld == load_cards(file)
    IN  /\ saves < MaxSeqSaves
        /\ \E from_idx \in Indices(ld.cards), to_idx \in Indices(ld.cards) :
               Invocation("http",
                          [op |-> "reorder", from |-> from_idx, to |-> to_idx], ld)

\* cards add: the prompts come first, then load_cards, add_card, save_cards
cards_add ==
    LET ld == load_cards(file)
    IN  /\ saves < MaxSeqSaves
        /\ \E a \in CliAddArgs :
               Invocation("exit", [op |-> "add", args |-> a], ld)

\* cards reorder FROM_IDX TO_IDX
cards_reorder ==
    LET ld == load_cards(file)
    IN  /\ saves < MaxSeqSaves
        /\ \E from_idx \in Indices(ld.cards), to_idx \in Indices(ld.cards) :
               Invocation("exit",
                          [op |-> "reorder", from |-> from_idx, to |-> to_idx], ld)

\* cards edit INDEX and cards remove INDEX up to their first prompt (cli.py
\* 87-93, 147-154): load_cards and the range check, which ends the command with
\* status 1; so does len(None) for a file with no byte
CommandLoads(cmd) ==
    /\ LET ld == load_cards(file)
       IN  \E index \in Indices(ld.cards) :
        IF ld.kind = "list" /\ InRange(ld.cards, index)
        THEN /\ term' = [pc |-> cmd, index |-> index, data |-> ld.cards]
             /\ resp' = resp
        ELSE /\ term' = term
             /\ resp' = [kind |-> "exit", status |-> 1]
    /\ UNCHANGED <<file, saves, opsVars, raceVars, pubVars>>

\* a command begins only while a save is still to come within the bound
cards_edit_load ==
    /\ term.pc = "idle"
    /\ saves < MaxSeqSaves
    /\ CommandLoads("edit")

cards_remove_load ==
    /\ term.pc = "idle"
    /\ saves < MaxSeqSaves
    /\ CommandLoads("remove")

\* what click.prompt(text, default=d) returns: what the user entered, or d
\* when nothing was entered; an empty answer is the default, so "" is returned
\* only when it is the default
Prompted(S, d) == (S \ {""}) \cup {d}

\* what cards_edit passes to update_card for a card (cli.py 95-138): the
\* answers to the logo, title, center and partition prompts, each of which
\* offers the card's value as its default, are always passed; content is what
\* the editor left in the file, or the lines entered with their line ends, or
\* None when no line was entered
EditAnswers(card) ==
    {Kw(<<l>>, <<t>>, c, <<ce>>, <<pa>>) :
        l \in Prompted(LogoVals, FieldsOf(card).logo),
        t \in Prompted(TitleVals, FieldsOf(card).title),
        c \in Opt(ContentVals), ce \in BOOLEAN, pa \in BOOLEAN}

\* cards edit after its prompts (cli.py 138-140): update_card on the list the
\* command loaded before it waited, save_cards
cards_edit_save ==
    /\ term.pc = "edit"
    /\ saves < MaxSeqSaves
    /\ \E kw \in EditAnswers(At(term.data, term.index)) :
        file' = save_cards(update_card(term.data, term.index, kw))
    /\ saves' = saves + 1
    /\ resp' = [kind |-> "exit", status |-> 0]
    /\ term' = NoCommand
    /\ UNCHANGED <<opsVars, raceVars, pubVars>>

\* cards remove after click.confirm (cli.py 155-161): "Cancelled." on no,
\* remove_card on the list the command loaded and save_cards on yes
cards_remove_confirm ==
    /\ term.pc = "remove"
    /\ \E yes \in BOOLEAN :
        IF yes
        THEN /\ saves < MaxSeqSaves
             /\ file' = save_cards(remove_card(term.data, term.index))
             /\ saves' = saves + 1
        ELSE /\ file' = file
             /\ saves' = saves
    /\ resp' = [kind |-> "exit", status |-> 0]
    /\ term' = NoCommand
    /\ UNCHANGED <<opsVars, raceVars, pubVars>>

\* the user interrupts a prompt: click ends the command with status 1
command_aborted ==
    /\ term.pc # "idle"
    /\ resp' = [kind |-> "exit", status |-> 1]
    /\ term' = NoCommand
    /\ UNCHANGED <<file, saves, opsVars, raceVars, pubVars>>

NextSeq ==
    \/ api_cards_add
    \/ api_cards_update
    \/ api_cards_delete
    \/ api_cards_reorder
    \/ cards_add
    \/ cards_reorder
    \/ cards_edit_load
    \/ cards_edit_save
    \/ cards_remove_load
    \/ cards_remove_confirm
    \/ command_aborted

SpecSeq == InitSeq /\ [][NextSeq]_vars

\* every card of the file
FileCards == {Loaded[i] : i \in 1..Len(Loaded)}

\* C4: starting from a list in which no card has an empty logo, after any
\* sequence of front-end invocations (add, update, remove, reorder) no card of
\* the list has a logo key whose value is the empty string.
C4_NoEmptyLogo ==
    \A c \in FileCards : Has(c, "logo") => Get(c, "logo") # ""

(***************************************************************************)
(* SpecRace: two web requests on the same file, nothing locked.  A request *)
(* is load_cards, the core operation on the loaded list, and save_cards,   *)
(* whose open (truncating) and write are two accesses to the file.         *)
(* proc[p].snap is the list p loaded, proc[p].data the list it holds;      *)
(* events lists the accesses to the file in the order they happened.       *)
(***************************************************************************)
RaceCards ==
    {new_card("", "", "", FALSE, FALSE),
     new_card("/assets/img/flower.svg", "X", "<p>hi</p>\n", TRUE, FALSE)}

\* the requests the two invocations make
RaceRequests(cs) ==
    {[op |-> "add", args |-> a] :
        a \in {[logo |-> "", title |-> "X", content |-> "", center |-> TRUE,
                partition |-> FALSE],
               [logo |-> "/assets/img/flower.svg", title |-> "",
                content |-> "<p>hi</p>\n", center |-> FALSE, partition |-> TRUE],
               [logo |-> "", title |-> "", content |-> "\n", center |-> FALSE,
                partition |-> FALSE]}}
    \cup {[op |-> "update", index |-> i, kw |-> kw] :
            i \in RouteIndices(cs),
            kw \in {Kw(<<>>, <<"">>, <<>>, <<>>, <<TRUE>>),
                    Kw(<<>>, <<>>, <<"">>, <<>>, <<>>)}}
    \cup {[op |-> "delete", index |-> i] : i \in RouteIndices(cs)}
    \cup {[op |-> "reorder", from |-> i, to |-> j] :
            i \in Indices(cs), j \in Indices(cs)}

InitRace ==
    /\ cards = <<>>
    /\ last = NoCall
    /\ prev = NoCall
    /\ calls = 0
    /\ file \in {dump_text(cs) : cs \in SeqsUpTo(RaceCards, MaxRaceCards)}
    /\ resp = NoResponse
    /\ term = NoCommand
    /\ saves = 0
    /\ proc = [p \in Procs |-> NotStarted]
    /\ events = <<>>
    /\ git = CleanRepo
    /\ pub = [p \in Procs |-> NoPublish]

\* cards = load_cards(), for a request that has just arrived; a file that does
\* not parse raises out of the handler.  The file holds a card list, no byte,
\* or no YAML document whenever a request of this specification loads it.
Load(p) ==
    /\ proc[p].pc = "start"
    /\ load_cards(file).kind # "foreign"
    /\ \E req \in RaceRequests(load_cards(file).cards) :
        proc' = [proc EXCEPT ![p] =
                    [pc |-> IF load_cards(file).kind = "ParseError"
                            THEN "failed" ELSE "loaded",
                     req |-> req,
                     kind |-> load_cards(file).kind,
                     snap |-> load_cards(file).cards,
                     data |-> load_cards(file).cards,
                     status |-> IF load_cards(file).kind = "ParseError"
                                THEN web_status("ParseError") ELSE 0]]
    /\ events' = Append(events, <<p, "load">>)
    /\ UNCHANGED <<opsVars, seqVars, pubVars>>

\* the core operation on the loaded list; an exception is answered and
\* nothing is saved
Mutate(p) ==
    /\ proc[p].pc = "loaded"
    /\ LET exc == RequestException(proc[p].req,
                                   [kind |-> proc[p].kind, cards |-> proc[p].data])
       IN  proc' = [proc EXCEPT ![p] =
                      IF exc = "none"
                      THEN [@ EXCEPT !.pc = "mutated",
                                     !.data = RequestResult(proc[p].req, proc[p].data)]
                      ELSE [@ EXCEPT !.pc = "failed", !.status = web_status(exc)]]
    /\ UNCHANGED <<opsVars, seqVars, events, pubVars>>

\* save_cards, line 40: open(CARDS_PATH, "w")
SaveOpen(p) ==
    /\ proc[p].pc = "mutated"
    /\ file' = opened_for_writing
    /\ proc' = [proc EXCEPT ![p].pc = "opened"]
    /\ events' = Append(events, <<p, "open">>)
    /\ UNCHANGED <<opsVars, resp, term, saves, pubVars>>

\* save_cards, line 41: f.write(text) and the close; the request is answered
SaveWrite(p) ==
    /\ proc[p].pc = "opened"
    /\ file' = written(file, dump_text(proc[p].data))
    /\ proc' = [proc EXCEPT ![p].pc = "done", ![p].status = web_status("none")]
    /\ events' = Append(events, <<p, "write">>)
    /\ UNCHANGED <<opsVars, resp, term, saves, pubVars>>

NextRace == \E p \in Procs : Load(p) \/ Mutate(p) \/ SaveOpen(p) \/ SaveWrite(p)

SpecRace == InitRace /\ [][NextRace]_vars

\* the place of p's access `step` in events (0 when it has not happened)
Pos(p, step) ==
    IF \E i \in 1..Len(events) : events[i] = <<p, step>>
    THEN CHOOSE i \in 1..Len(events) : events[i] = <<p, step>>
    ELSE 0

\* both invocations loaded, mutated and saved
BothSaved == \A p \in Procs : proc[p].pc = "done"

\* both invocations loaded before either began to save
BothLoadedBeforeEitherSaves ==
    \A p \in Procs, q \in Procs : Pos(p, "load") < Pos(q, "open")

\* the invocation whose save ended last, and the other one
LastSaver == events[Len(events)][1]

EarlierSaver == CHOOSE p \in Procs : p # LastSaver

\* the file holds exactly the text of the list the last saver loaded with its
\* own request applied, and that list is the one the earlier saver loaded too:
\* nothing of the earlier saver's request is in the file
LastWriterWins ==
    /\ proc[LastSaver].snap = proc[EarlierSaver].snap
    /\ file = dump_text(RequestResult(proc[LastSaver].req, proc[LastSaver].snap))
    /\ load_cards(file).kind = "list"
    /\ load_cards(file).cards =
           RequestResult(proc[LastSaver].req, proc[LastSaver].snap)

\* C9 as stated: when two invocations both load before either saves, the final
\* file is exactly the last saver's loaded snapshot with only its own mutation
\* applied, and the earlier saver's mutation is lost.
C9_LastWriterWins ==
    (BothSaved /\ BothLoadedBeforeEitherSaves) => LastWriterWins

\* what the two saves leave: the last saver's text, followed by the bytes of
\* the earlier saver's text beyond its length when the earlier saver wrote
\* after the last saver had opened the file
TwoSavesLeave ==
    BothSaved =>
        file = written(IF Pos(LastSaver, "open") < Pos(EarlierSaver, "write")
                       THEN dump_text(proc[EarlierSaver].data) ELSE <<>>,
                       dump_text(proc[LastSaver].data))

(***************************************************************************)
(* SpecPub: git_publish (core.py 137-142) under its two callers, the       *)
(* publish command (cli.py 186-198) and POST /api/publish (app.py 103-111).*)
(* Each of the three subprocess.run(..., check=True) is a step of its own: *)
(* the git command exits with some status, and takes effect on the         *)
(* repository only when that status is 0.  Nothing keeps a second publish  *)
(* from starting while one runs, and cards.yml may be saved again at any   *)
(* time: the git commands of two publishes interleave on one repository.   *)
(* pub[p].ran lists the steps of publish p with their exit status and the  *)
(* repository each left.                                                   *)
(***************************************************************************)
\* exit statuses of a git command: success, failure, fatal error
ExitCodes == {0, 1, 128}

\* the steps of git_publish, in the order of its three subprocess.run calls
PublishSteps == <<"add", "commit", "push">>

\* subprocess.run without check=True: the exit status is not looked at
after_step_unchecked(step, rc) ==
    CASE step = "add" -> "commit"
      [] step = "commit" -> "push"
      [] step = "push" -> "done"

\* where git_publish goes after a step: check=True raises CalledProcessError
\* for a non-zero exit status, otherwise the next statement runs
after_step(step, rc) ==
    IF rc # 0 THEN "failed"
    ELSE CASE step = "add" -> "commit"
           [] step = "commit" -> "push"
           [] step = "push" -> "done"

\* the repository after a git command that exited 0
git_effect(step, g) ==
    CASE step = "add" -> [g EXCEPT !.index = g.work]
      [] step = "commit" -> [g EXCEPT !.head = g.index]
      [] step = "push" -> [g EXCEPT !.remote = g.head]

\* what the caller answers: the command prints "Published successfully!" or
\* "Git error: ..." and exits 1; the web handler answers ok or 500 with the
\* error, which names the command and its exit status
answer_of(pc, step, rc) ==
    CASE pc = "done" -> [ok |-> TRUE, step |-> step, rc |-> rc]
      [] pc = "failed" -> [ok |-> FALSE, step |-> step, rc |-> rc]
      [] OTHER -> [ok |-> TRUE, step |-> "none", rc |-> 0]

NoAnswer == answer_of("idle", "none", 0)

InitPub ==
    /\ cards = <<>>
    /\ last = NoCall
    /\ prev = NoCall
    /\ calls = 0
    /\ file = dump_text(<<>>)
    /\ resp = NoResponse
    /\ term = NoCommand
    /\ saves = 0
    /\ proc = [p \in Procs |-> NotStarted]
    /\ events = <<>>
    /\ git = CleanRepo
    /\ pub = [p \in Procs |-> NoPublish]

\* slot p holds no running publish (the model follows two publishes at a time)
SlotFree(p) == pub[p].pc \in {"idle", "done", "failed", "cancelled"}

\* the publish command: click.confirm, then git_publish
publish(p) ==
    /\ SlotFree(p)
    /\ \E yes \in BOOLEAN :
        pub' = [pub EXCEPT ![p] =
                   [pc |-> IF yes THEN "add" ELSE "cancelled", caller |-> "cli",
                    ran |-> <<>>, answer |-> NoAnswer]]
    /\ UNCHANGED <<opsVars, seqVars, raceVars, git>>

\* POST /api/publish
api_publish(p) ==
    /\ SlotFree(p)
    /\ pub' = [pub EXCEPT ![p] =
                  [pc |-> "add", caller |-> "web", ran |-> <<>>, answer |-> NoAnswer]]
    /\ UNCHANGED <<opsVars, seqVars, raceVars, git>>

\* one subprocess.run(["git", ...], check=True) of git_publish
GitStep(p, step) ==
    /\ \E rc \in ExitCodes :
        /\ git' = IF rc = 0 THEN git_effect(step, git) ELSE git
        /\ pub' = [pub EXCEPT
                     ![p].pc = after_step(step, rc),
                     ![p].ran = Append(@, [step |-> step, rc |-> rc,
                                           git |-> IF rc = 0 THEN git_effect(step, git)
                                                   ELSE git]),
                     ![p].answer = answer_of(after_step(step, rc), step, rc)]
    /\ UNCHANGED <<opsVars, seqVars, raceVars>>

git_add(p) ==
    /\ pub[p].pc = "add"
    /\ GitStep(p, "add")

git_commit(p) ==
    /\ pub[p].pc = "commit"
    /\ GitStep(p, "commit")

git_push(p) ==
    /\ pub[p].pc = "push"
    /\ GitStep(p, "push")

\* a front-end invocation saves cards.yml: the work tree holds a new version
save_while_publishing ==
    /\ git.work < MaxEdits
    /\ git' = [git EXCEPT !.work = @ + 1]
    /\ UNCHANGED <<opsVars, seqVars, raceVars, pub>>

NextPub ==
    \/ \E p \in Procs : publish(p)
    \/ \E p \in Procs : api_publish(p)
    \/ \E p \in Procs : git_add(p)
    \/ \E p \in Procs : git_commit(p)
    \/ \E p \in Procs : git_push(p)
    \/ save_while_publishing

SpecPub == InitPub /\ [][NextPub]_vars

\* C7: every publish runs stage, commit, push in that order, each started only
\* after the previous one exited with status zero; a step that exits non-zero
\* ends the publish as failed, that step and its status are what the caller is
\* answered, no later step is run (a failing commit means no push), and what the
\* earlier successful steps did to the repository stays.
C7_PublishStepsInOrder ==
    \A p \in Procs :
        LET ran == pub[p].ran
            n == Len(pub[p].ran)
            pc == pub[p].pc
        IN  /\ n <= Len(PublishSteps)
            /\ \A i \in 1..n : ran[i].step = PublishSteps[i]
            /\ \A i \in 1..(n - 1) : ran[i].rc = 0
            /\ pc \in {"commit", "push", "done"} => (n >= 1 /\ ran[n].rc = 0)
            /\ pc = "commit" => n = 1
            /\ pc = "push" => n = 2
            /\ pc = "done" => (n = 3 /\ pub[p].answer.ok)
            /\ (n >= 1 /\ ran[n].rc # 0) =>
                  /\ pc = "failed"
                  /\ pub[p].answer =
                         [ok |-> FALSE, step |-> ran[n].step, rc |-> ran[n].rc]
            /\ pc = "failed" => (n >= 1 /\ ran[n].rc # 0)
            /\ \A i \in 1..n :
                  ran[i].rc = 0 =>
                      /\ ran[i].step = "add" => git.index >= ran[i].git.index
                      /\ ran[i].step = "commit" => git.head >= ran[i].git.head
                      /\ ran[i].step = "push" => git.remote >= ran[i].git.remote

\* the commit step of a publish failed after its stage step had staged a new
\* version: push was not run, the caller is told commit failed, the version
\* stays staged
C7_Witness ==
    \E p \in Procs :
        /\ pub[p].pc = "failed"
        /\ Len(pub[p].ran) = 2
        /\ pub[p].ran[1].rc = 0
        /\ pub[p].ran[2].step = "commit"
        /\ pub[p].ran[2].rc = 1
        /\ pub[p].answer = [ok |-> FALSE, step |-> "commit", rc |-> 1]
        /\ git.index > git.head
        /\ git.index = pub[p].ran[1].git.index

====
